---- MODULE Spec2Model ----
(***************************************************************************)
(* Desired-state reconciliation as implemented by the resource modules of  *)
(* the collection: azure_rm_datafactory, azure_rm_hybridcompute,           *)
(* azure_rm_monitordatacollectionendpoint, azure_rm_monitordatacollection- *)
(* rule, azure_rm_openshiftmanagedcluster, azure_rm_aduser and             *)
(* azure_rm_adserviceprincipal.                                            *)
(*                                                                         *)
(* One behaviour follows one module (chosen in Init) through up to MaxRuns *)
(* successive invocations of exec_module with the same parameters against  *)
(* one remote resource.  Each invocation is split at its remote calls:     *)
(* the fetch (GET), the mutating call, and for the OpenShift module the    *)
(* delete-confirmation poll.  Every remote call has a nondeterministic     *)
(* outcome: the remote answers, or the call fails.                         *)
(***************************************************************************)
EXTENDS Integers, FiniteSets, Sequences, TLC

\* ------------------------------------------------------------------ bounds
MaxTagVal == 2      \* tag values are 1..MaxTagVal, 0 stands for "key absent"
MaxRuns == 2        \* successive invocations in one behaviour
MaxPolls == 2       \* the poll counter saturates here (the loop itself does not stop)
NumUsers == 2       \* users the directory can hold; their object ids are 1..NumUsers
MaxFetched == 2     \* resources in the scope an info module looks at
MaxWorkers == 1     \* entries of the OpenShift worker_profiles list

TagKeys == {"a", "b"}
TagMap == [TagKeys -> 0..MaxTagVal]
EmptyTags == [k \in TagKeys |-> 0]
\* tags a task supplies: at most one key (keeps the parameter space small)
DesiredTagMaps == {t \in TagMap : Cardinality({k \in TagKeys : t[k] # 0}) <= 1}

ArmModules == {"datafactory", "hybridcompute", "dce", "dcr"}
Modules == ArmModules \cup {"openshift", "aduser", "adsp"}
CheckModeModules == ArmModules \cup {"openshift"}

\* ------------------------------------------------------------------ state
VARIABLES
    module,      \* the module this behaviour runs
    params,      \* the task's parameters (kwargs of exec_module)
    check_mode,  \* self.check_mode
    remote,      \* the remote resource (the cloud's state)
    pc,          \* position of the invocation: fetch, act, poll, sleep, done, failed
    response,    \* what the module's fetch returned to exec_module
    getOutcome,  \* what the remote answered to the fetch: found, notfound, error
    calls,       \* mutating calls issued in this invocation, and how many were accepted
    result,      \* self.results of a finished invocation
    run,         \* number of the current invocation
    first,       \* self.results of the first invocation, once a second one runs
    startAbsent, \* the resource did not exist when the first invocation started
    polls,       \* GETs issued by the delete-confirmation poll (saturating)
    pollSaw,     \* answers the poll's GETs got so far
    peer,        \* the other of two interleaved invocations, while it is suspended
    current,     \* which of the two invocations pc, response, calls, result belong to
    serialized,  \* the caller runs the two invocations one after the other
    info,        \* one invocation of an info module: its input and what it returned
    osb          \* the request body of the OpenShift module: the input and the body

vars == <<module, params, check_mode, remote, pc, response, getOutcome, calls,
          result, run, first, startAbsent, polls, pollSaw,
          peer, current, serialized, info, osb>>

\* the variables of one invocation of a resource module and of its remote
core == <<module, params, check_mode, remote, pc, response, getOutcome, calls,
          result, run, first, startAbsent, polls, pollSaw>>

\* ------------------------------------------------------------------ values
\* An ARM resource as the remote holds it.  extra stands for the attributes
\* the modules pass through without comparing them (global_parameters of a
\* data factory, description/kind/network_acls of a data collection endpoint).
NoObj == [ex |-> FALSE, tags |-> EmptyTags, pna |-> "None", extra |-> "None",
          identity |-> "None", deleting |-> FALSE]

ArmObjs(m) ==
    {NoObj} \cup
    [ex : {TRUE},
     tags : IF m = "openshift" THEN {EmptyTags} ELSE TagMap,
     pna : IF m = "datafactory" THEN {"Enabled", "Disabled"} ELSE {"None"},
     extra : IF m \in {"datafactory", "dce", "dcr"} THEN {"None", "x1"} ELSE {"None"},
     identity : IF m = "dce" THEN {"None", "SystemAssigned"} ELSE {"None"},
     deleting : {FALSE}]

\* body is the body of the last create or update call ("None" before any)
NoCalls == [create |-> 0, update |-> 0, delete |-> 0, accepted |-> 0, body |-> "None"]
NoResult == [changed |-> FALSE, state |-> NoObj]

Mutations(c) == c.create + c.update + c.delete

\* ------------------------------------------------------------------ parameters
\* tags as a task gives them: not supplied (None), or a map
TagParams == {[set |-> FALSE, map |-> EmptyTags]} \cup
             [set : {TRUE}, map : DesiredTagMaps]

ParamsOf(m) ==
    CASE m = "datafactory" ->
           [state : {"present", "absent"}, tags : TagParams,
            public_network_access : {"None", "Enabled", "Disabled"},
            global_parameters : {"None", "x1"}]
      [] m = "hybridcompute" ->
           [state : {"present", "absent"}, tags : TagParams]
      [] m = "dce" ->
           [state : {"present", "absent"}, tags : TagParams,
            description : {"None", "x1"},
            identity : {"Unset", "None", "SystemAssigned"}]
      [] m = "dcr" ->
           [state : {"present", "absent"}, tags : TagParams,
            description : {"None", "x1"}]
      [] m = "aduser" ->
           \* exactly one identity selector (mutually_exclusive, required_one_of);
           \* attribute_name is "mail", odata_filter f1 is "?$filter=mail eq 'm1'";
           \* account_enabled defaults to True
           {q \in [state : {"present", "absent"},
                   object_id : 0..NumUsers,
                   user_principal_name : {"None", "u1"},
                   attribute_value : {"None", "m1"},
                   odata_filter : {"None", "f1"},
                   display_name : {"None", "d1"},
                   mail : {"None", "m1"},
                   account_enabled : {"true", "false"}] :
               Cardinality({x \in {"o", "u", "a", "f"} :
                    \/ x = "o" /\ q.object_id # 0
                    \/ x = "u" /\ q.user_principal_name # "None"
                    \/ x = "a" /\ q.attribute_value # "None"
                    \/ x = "f" /\ q.odata_filter # "None"}) = 1}
      [] m = "adsp" ->
           [state : {"present", "absent"},
            app_role_assignment_required : {"None", "true", "false"}]
      [] m = "openshift" ->
           \* worker_count is the length of the worker_profiles list
           {q \in [state : {"present", "absent"},
                   profiles : SUBSET {"workerProfiles", "servicePrincipalProfile",
                                      "masterProfile"},
                   worker_count : {0, 1}] :
               q.worker_count = 0 => "workerProfiles" \in q.profiles}

\* ------------------------------------------------------------------ the remote
\* What a PUT of `body` leaves at the remote: the resource with the body's
\* attributes; an attribute the body leaves null takes the service's default.
ArmPut(m, body) ==
    [ex |-> TRUE,
     tags |-> body.tags,
     pna |-> IF m = "datafactory" /\ body.pna = "None" THEN "Enabled" ELSE body.pna,
     extra |-> body.extra,
     identity |-> body.identity,
     deleting |-> FALSE]

\* ------------------------------------------------------------------ collaborators
\* AzureRMModuleBase.update_tags: merge of the task's tags into the existing
\* ones; <<changed, merged>>.
update_tags(existing, desired) ==
    LET merged == [k \in TagKeys |-> IF desired[k] # 0 THEN desired[k] ELSE existing[k]]
    IN  <<merged # existing, merged>>

\* AzureRMModuleBaseExt.update_single_managed_identity: <<changed, identity>>.
update_single_managed_identity(curr_identity, new_identity) ==
    <<new_identity # curr_identity, new_identity>>

\* ------------------------------------------------------------------ bookkeeping
Mutate(kind, ok) ==
    calls' = [calls EXCEPT ![kind] = @ + 1,
                           !.accepted = @ + (IF ok THEN 1 ELSE 0)]

\* a create or update call: the call is counted and its body kept
Send(kind, ok, body) ==
    calls' = [calls EXCEPT ![kind] = @ + 1,
                           !.accepted = @ + (IF ok THEN 1 ELSE 0),
                           !.body = body]

Return(ch, st) ==
    /\ pc' = "done"
    /\ result' = [changed |-> ch, state |-> st]

\* self.fail / an exception that leaves exec_module: no result is returned
Fail ==
    /\ pc' = "failed"
    /\ UNCHANGED result

\* How a GET can end: the remote answers (the resource or a 404), it answers
\* with another HTTP error (authorization, throttling, server error), or the
\* request does not get through (transport error).
GetOutcomes == {"ok", "http_error", "conn_error"}

aux == <<peer, current, serialized, info, osb>>
static == <<module, params, check_mode, run, first, startAbsent, aux>>
pollvars == <<polls, pollSaw>>

\* ------------------------------------------------------------------ data factory
DF_pip_to_dict(pip) ==
    [ex |-> TRUE, tags |-> pip.tags, pna |-> pip.pna, extra |-> "None",
     identity |-> "None", deleting |-> FALSE]

\* get_item: only ResourceNotFoundError is caught, any other error leaves
\* exec_module as an exception
DF_get_item ==
    /\ module = "datafactory" /\ pc = "fetch"
    /\ \E o \in GetOutcomes :
         IF o = "ok"
         THEN /\ response' = IF remote.ex THEN DF_pip_to_dict(remote) ELSE NoObj
              /\ getOutcome' = IF remote.ex THEN "found" ELSE "notfound"
              /\ pc' = "act"
         ELSE /\ response' = NoObj
              /\ getOutcome' = "error"
              /\ pc' = "failed"
    /\ UNCHANGED <<static, remote, calls, result, pollvars>>

\* lines 266-274: the comparison
DF_tags_changed(p, resp) ==
    p.tags.set /\ update_tags(resp.tags, p.tags.map)[1]

\* faulty variant: an unset public_network_access is compared as well
DF_pna_changed_unguarded(p, resp) ==
    p.public_network_access # resp.pna

DF_pna_changed(p, resp) ==
    p.public_network_access # "None" /\ p.public_network_access # resp.pna

DF_changed(p, resp) == DF_tags_changed(p, resp) \/ DF_pna_changed(p, resp)

\* lines 282-287: Factory(...) of the update, after self.tags and
\* self.public_network_access were rewritten by the comparison
DF_update_parameters(p, resp) ==
    [tags |-> IF DF_tags_changed(p, resp) THEN update_tags(resp.tags, p.tags.map)[2]
              ELSE p.tags.map,
     pna |-> IF DF_pna_changed(p, resp) THEN p.public_network_access ELSE resp.pna,
     extra |-> p.global_parameters,
     identity |-> "None"]

\* lines 296-301: Factory(...) of the create
DF_create_parameters(p) ==
    [tags |-> p.tags.map, pna |-> p.public_network_access,
     extra |-> p.global_parameters, identity |-> "None"]

\* faulty variant: the result of an accepted call reports the opposite of changed
DF_create_or_update_unreported(kind, parameters, ch) ==
    \E o \in {"ok", "raise"} :
        /\ Send(kind, o = "ok", parameters)
        /\ IF o = "ok"
           THEN /\ remote' = ArmPut("datafactory", parameters)
                /\ Return(~ch, DF_pip_to_dict(remote'))
           ELSE /\ UNCHANGED remote
                /\ Fail

\* create_or_update: factories.create_or_update, self.fail on any exception
DF_create_or_update(kind, parameters, ch) ==
    \E o \in {"ok", "raise"} :
        /\ Send(kind, o = "ok", parameters)
        /\ IF o = "ok"
           THEN /\ remote' = ArmPut("datafactory", parameters)
                /\ Return(ch, DF_pip_to_dict(remote'))
           ELSE /\ UNCHANGED remote
                /\ Fail

\* delete: factories.delete answers nothing, so the result's state is None
DF_delete(ch) ==
    \E o \in {"ok", "raise"} :
        /\ Mutate("delete", o = "ok")
        /\ IF o = "ok"
           THEN /\ remote' = NoObj
                /\ Return(ch, NoObj)
           ELSE /\ UNCHANGED remote
                /\ Fail

\* faulty variant: state=present creates without looking at what was fetched
DF_exec_module_blind ==
    /\ module = "datafactory" /\ pc = "act"
    /\ IF params.state = "present"
       THEN IF check_mode
            THEN /\ Return(TRUE, NoObj)
                 /\ UNCHANGED <<remote, calls>>
            ELSE DF_create_or_update("create", DF_create_parameters(params), TRUE)
       ELSE IF response.ex
            THEN IF check_mode
                 THEN /\ Return(TRUE, NoObj)
                      /\ UNCHANGED <<remote, calls>>
                 ELSE DF_delete(TRUE)
            ELSE /\ Return(FALSE, NoObj)
                 /\ UNCHANGED <<remote, calls>>
    /\ UNCHANGED <<static, response, getOutcome, pollvars>>

DF_exec_module ==
    /\ module = "datafactory" /\ pc = "act"
    /\ IF params.state = "present"
       THEN IF response.ex
            THEN IF check_mode \/ ~DF_changed(params, response)
                 THEN /\ Return(DF_changed(params, response), response)
                      /\ UNCHANGED <<remote, calls>>
                 ELSE DF_create_or_update("update",
                                          DF_update_parameters(params, response), TRUE)
            ELSE IF check_mode
                 THEN /\ Return(TRUE, NoObj)
                      /\ UNCHANGED <<remote, calls>>
                 ELSE DF_create_or_update("create", DF_create_parameters(params), TRUE)
       ELSE IF response.ex
            THEN IF check_mode
                 THEN /\ Return(TRUE, NoObj)
                      /\ UNCHANGED <<remote, calls>>
                 ELSE DF_delete(TRUE)
            ELSE /\ Return(FALSE, NoObj)
                 /\ UNCHANGED <<remote, calls>>
    /\ UNCHANGED <<static, response, getOutcome, pollvars>>

\* ------------------------------------------------------------------ hybrid compute
HC_to_dict(pip) ==
    [ex |-> TRUE, tags |-> pip.tags, pna |-> "None", extra |-> "None",
     identity |-> pip.identity, deleting |-> FALSE]

\* get: only ResourceNotFoundError is caught
HC_get ==
    /\ module = "hybridcompute" /\ pc = "fetch"
    /\ \E o \in GetOutcomes :
         IF o = "ok"
         THEN /\ response' = IF remote.ex THEN HC_to_dict(remote) ELSE NoObj
              /\ getOutcome' = IF remote.ex THEN "found" ELSE "notfound"
              /\ pc' = "act"
         ELSE /\ response' = NoObj
              /\ getOutcome' = "error"
              /\ pc' = "failed"
    /\ UNCHANGED <<static, remote, calls, result, pollvars>>

\* delete_hybrid_compute: machines.delete answers nothing
HC_delete_hybrid_compute ==
    \E o \in {"ok", "raise"} :
        /\ Mutate("delete", o = "ok")
        /\ IF o = "ok"
           THEN /\ remote' = NoObj
                /\ Return(TRUE, NoObj)
           ELSE /\ UNCHANGED remote
                /\ Fail

\* faulty variant: the delete is not kept from check mode
HC_exec_module_ignores_check ==
    /\ module = "hybridcompute" /\ pc = "act"
    /\ IF params.state = "present"
       THEN /\ Return(FALSE, response)
            /\ UNCHANGED <<remote, calls>>
       ELSE IF response.ex
            THEN HC_delete_hybrid_compute
            ELSE /\ Return(FALSE, response)
                 /\ UNCHANGED <<remote, calls>>
    /\ UNCHANGED <<static, response, getOutcome, pollvars>>

\* exec_module: state=present is `pass`
HC_exec_module ==
    /\ module = "hybridcompute" /\ pc = "act"
    /\ IF params.state = "present"
       THEN /\ Return(FALSE, response)
            /\ UNCHANGED <<remote, calls>>
       ELSE IF ~check_mode /\ response.ex
            THEN HC_delete_hybrid_compute
            ELSE /\ Return(FALSE, response)
                 /\ UNCHANGED <<remote, calls>>
    /\ UNCHANGED <<static, response, getOutcome, pollvars>>

\* ------------------------------------------------------------------ data collection endpoint
DCE_to_dict(body) ==
    [ex |-> TRUE, tags |-> body.tags, pna |-> "None", extra |-> body.extra,
     identity |-> body.identity, deleting |-> FALSE]

\* get_by_name: every HttpResponseError is caught and logged, and the
\* function then returns to_dict(None) = None
DCE_get_by_name ==
    /\ module = "dce" /\ pc = "fetch"
    /\ \E o \in GetOutcomes :
         /\ response' = IF o = "ok" /\ remote.ex THEN DCE_to_dict(remote) ELSE NoObj
         /\ getOutcome' = IF o # "ok" THEN "error"
                          ELSE IF remote.ex THEN "found" ELSE "notfound"
         /\ pc' = IF o = "conn_error" THEN "failed" ELSE "act"
    /\ UNCHANGED <<static, remote, calls, result, pollvars>>

\* lines 264-275: self.update_identity and body['identity']
DCE_update_identity(p, old) ==
    /\ p.identity # "Unset"
    /\ update_single_managed_identity(old.identity, p.identity)[1]

\* self.body as exec_module leaves it for update() and create()
DCE_body(p, old) ==
    [tags |-> IF old.ex THEN update_tags(old.tags, p.tags.map)[2] ELSE p.tags.map,
     pna |-> "None",
     extra |-> p.description,
     identity |-> IF p.identity = "Unset" THEN "None"
                  ELSE update_single_managed_identity(old.identity, p.identity)[2]]

DCE_changed(p, old) ==
    update_tags(old.tags, p.tags.map)[1] \/ DCE_update_identity(p, old)

\* create and update: self.fail on HttpResponseError
DCE_put(kind, body) ==
    \E o \in {"ok", "raise"} :
        /\ Send(kind, o = "ok", body)
        /\ IF o = "ok"
           THEN /\ remote' = ArmPut("dce", body)
                /\ Return(TRUE, DCE_to_dict(remote'))
           ELSE /\ UNCHANGED remote
                /\ Fail

\* delete returns nothing, so results becomes None
DCE_delete ==
    \E o \in {"ok", "raise"} :
        /\ Mutate("delete", o = "ok")
        /\ IF o = "ok"
           THEN /\ remote' = NoObj
                /\ Return(TRUE, NoObj)
           ELSE /\ UNCHANGED remote
                /\ Fail

DCE_exec_module ==
    /\ module = "dce" /\ pc = "act"
    /\ IF response.ex
       THEN IF params.state = "present"
            THEN IF DCE_changed(params, response)
                 THEN IF ~check_mode
                      THEN DCE_put("update", DCE_body(params, response))
                      ELSE /\ Return(TRUE, NoObj)
                           /\ UNCHANGED <<remote, calls>>
                 ELSE /\ Return(FALSE, response)
                      /\ UNCHANGED <<remote, calls>>
            ELSE IF ~check_mode
                 THEN DCE_delete
                 ELSE /\ Return(TRUE, NoObj)
                      /\ UNCHANGED <<remote, calls>>
       ELSE IF params.state = "present"
            THEN IF ~check_mode
                 THEN DCE_put("create", DCE_body(params, response))
                 ELSE /\ Return(TRUE, NoObj)
                      /\ UNCHANGED <<remote, calls>>
            ELSE /\ Return(FALSE, NoObj)
                 /\ UNCHANGED <<remote, calls>>
    /\ UNCHANGED <<static, response, getOutcome, pollvars>>

\* ------------------------------------------------------------------ data collection rule
DCR_to_dict(body) ==
    [ex |-> TRUE, tags |-> body.tags, pna |-> "None", extra |-> body.extra,
     identity |-> body.identity, deleting |-> FALSE]

DCR_get_by_name ==
    /\ module = "dcr" /\ pc = "fetch"
    /\ \E o \in GetOutcomes :
         /\ response' = IF o = "ok" /\ remote.ex THEN DCR_to_dict(remote) ELSE NoObj
         /\ getOutcome' = IF o # "ok" THEN "error"
                          ELSE IF remote.ex THEN "found" ELSE "notfound"
         /\ pc' = IF o = "conn_error" THEN "failed" ELSE "act"
    /\ UNCHANGED <<static, remote, calls, result, pollvars>>

DCR_body(p, old) ==
    [tags |-> IF old.ex THEN update_tags(old.tags, p.tags.map)[2] ELSE p.tags.map,
     pna |-> "None",
     extra |-> p.description,
     identity |-> "None"]

DCR_changed(p, old) == update_tags(old.tags, p.tags.map)[1]

DCR_put(kind, body) ==
    \E o \in {"ok", "raise"} :
        /\ Send(kind, o = "ok", body)
        /\ IF o = "ok"
           THEN /\ remote' = ArmPut("dcr", body)
                /\ Return(TRUE, DCR_to_dict(remote'))
           ELSE /\ UNCHANGED remote
                /\ Fail

DCR_delete ==
    \E o \in {"ok", "raise"} :
        /\ Mutate("delete", o = "ok")
        /\ IF o = "ok"
           THEN /\ remote' = NoObj
                /\ Return(TRUE, NoObj)
           ELSE /\ UNCHANGED remote
                /\ Fail

DCR_exec_module ==
    /\ module = "dcr" /\ pc = "act"
    /\ IF response.ex
       THEN IF params.state = "present"
            THEN IF DCR_changed(params, response)
                 THEN IF ~check_mode
                      THEN DCR_put("update", DCR_body(params, response))
                      ELSE /\ Return(TRUE, NoObj)
                           /\ UNCHANGED <<remote, calls>>
                 ELSE /\ Return(FALSE, response)
                      /\ UNCHANGED <<remote, calls>>
            ELSE IF ~check_mode
                 THEN DCR_delete
                 ELSE /\ Return(TRUE, NoObj)
                      /\ UNCHANGED <<remote, calls>>
       ELSE IF params.state = "present"
            THEN IF ~check_mode
                 THEN DCR_put("create", DCR_body(params, response))
                 ELSE /\ Return(TRUE, NoObj)
                      /\ UNCHANGED <<remote, calls>>
            ELSE /\ Return(FALSE, NoObj)
                 /\ UNCHANGED <<remote, calls>>
    /\ UNCHANGED <<static, response, getOutcome, pollvars>>

\* ------------------------------------------------------------------ OpenShift cluster
\* class Actions; exec_module never assigns Update
Actions == {"NoAction", "Create", "Update", "Delete"}

RequiredProfiles ==
    {"workerProfiles", "clusterProfile", "servicePrincipalProfile", "masterProfile"}

\* lines 724-789: the profiles self.body['properties'] gets; cluster_profile
\* defaults to dict(), so clusterProfile is always there
OS_body_profiles(p) == p.profiles \cup {"clusterProfile"}

\* get_resource: every exception of the GET is caught and the function then
\* returns False
OS_get_resource_value(o) ==
    IF o = "ok" /\ remote.ex THEN [NoObj EXCEPT !.ex = TRUE] ELSE NoObj

OS_get_resource ==
    /\ module = "openshift" /\ pc = "fetch"
    /\ \E o \in GetOutcomes :
         /\ response' = OS_get_resource_value(o)
         /\ getOutcome' = IF o # "ok" THEN "error"
                          ELSE IF remote.ex THEN "found" ELSE "notfound"
         /\ pc' = "act"
    /\ UNCHANGED <<static, remote, calls, result, pollvars>>

\* faulty variant: an existing cluster with state=present is sent the PUT
OS_to_do_upsert(p, old_response) ==
    IF p.state = "absent"
    THEN IF old_response.ex THEN "Delete" ELSE "NoAction"
    ELSE "Create"

\* faulty variant: a missing cluster is created whatever state asks for
OS_to_do_ignores_state(p, old_response) ==
    IF ~old_response.ex
    THEN "Create"
    ELSE IF p.state = "absent" THEN "Delete" ELSE "Unsupported"

\* lines 810-831: self.to_do; an existing cluster with state=present is refused
OS_to_do(p, old_response) ==
    IF ~old_response.ex
    THEN IF p.state = "absent" THEN "NoAction" ELSE "Create"
    ELSE IF p.state = "absent" THEN "Delete" ELSE "Unsupported"

\* faulty variant: the PUT is sent without looking at the profiles
OS_create_update_resource_unvalidated ==
    \E o \in {"ok", "raise", "nomatch"} :
        /\ Send("create", o # "raise", OS_body_profiles(params))
        /\ IF o = "raise"
           THEN /\ UNCHANGED remote
                /\ Fail
           ELSE /\ remote' = [NoObj EXCEPT !.ex = TRUE]
                /\ IF o = "ok"
                   THEN Return(TRUE, [NoObj EXCEPT !.ex = TRUE])
                   ELSE Fail

\* create_update_resource: the required profiles are checked before the PUT;
\* set_default then indexes workerProfiles[0], an IndexError on an empty list
OS_create_update_resource ==
    IF ~(RequiredProfiles \subseteq OS_body_profiles(params))
    THEN /\ Fail
         /\ UNCHANGED <<remote, calls>>
    ELSE IF params.worker_count = 0
    THEN /\ Fail
         /\ UNCHANGED <<remote, calls>>
    ELSE \E o \in {"ok", "raise", "nomatch"} :
            /\ Send("create", o # "raise", OS_body_profiles(params))
            /\ IF o = "raise"
               THEN /\ UNCHANGED remote
                    /\ Fail
               ELSE /\ remote' = [NoObj EXCEPT !.ex = TRUE]
                    /\ IF o = "ok"
                       THEN Return(TRUE, [NoObj EXCEPT !.ex = TRUE])
                       ELSE Fail

\* delete_resource: a DELETE the service accepts removes the cluster at once
\* or leaves it in place for a while
OS_delete_resource ==
    \E o \in {"gone", "lingering", "raise"} :
        /\ Mutate("delete", o # "raise")
        /\ IF o = "raise"
           THEN /\ UNCHANGED <<remote, result>>
                /\ pc' = "failed"
           ELSE /\ remote' = IF o = "gone" THEN NoObj
                             ELSE [remote EXCEPT !.deleting = TRUE]
                /\ result' = [changed |-> TRUE, state |-> NoObj]
                /\ pc' = "poll"

\* lines 836-849: what a check-mode invocation reports as changed
OS_check_mode_changed(p, old_response) ==
    OS_to_do(p, old_response) \in {"Create", "Delete"}

OS_exec_module ==
    /\ module = "openshift" /\ pc = "act"
    /\ LET to_do == OS_to_do(params, response) IN
         CASE to_do = "Unsupported" ->
                /\ Fail
                /\ UNCHANGED <<remote, calls>>
           [] to_do = "Create" ->
                IF check_mode
                THEN /\ Return(TRUE, NoObj)
                     /\ UNCHANGED <<remote, calls>>
                ELSE OS_create_update_resource
           [] to_do = "Delete" ->
                IF check_mode
                THEN /\ Return(TRUE, NoObj)
                     /\ UNCHANGED <<remote, calls>>
                ELSE OS_delete_resource
           [] to_do = "NoAction" ->
                /\ Return(FALSE, NoObj)
                /\ UNCHANGED <<remote, calls>>
    /\ UNCHANGED <<static, response, getOutcome, pollvars>>

\* line 855: while self.get_resource(): one GET of the poll; the loop has no
\* other exit than a falsy get_resource()
OS_poll ==
    /\ module = "openshift" /\ pc = "poll"
    /\ \E o \in GetOutcomes :
         /\ pollSaw' = IF o # "ok" THEN "error"
                       ELSE IF remote.ex THEN "found" ELSE "notfound"
         /\ polls' = IF polls < MaxPolls THEN polls + 1 ELSE polls
         /\ IF OS_get_resource_value(o).ex
            THEN /\ pc' = "sleep"
                 /\ UNCHANGED result
            ELSE Return(TRUE, NoObj)
    /\ UNCHANGED <<static, remote, response, getOutcome, calls>>

\* line 856: time.sleep(20), then the loop's next GET
OS_sleep ==
    /\ module = "openshift" /\ pc = "sleep"
    /\ pc' = "poll"
    /\ UNCHANGED <<static, remote, response, getOutcome, calls, result, pollvars>>

\* the service finishes a deletion it had accepted
RemoteCompletesDelete ==
    /\ module = "openshift" /\ remote.ex /\ remote.deleting
    /\ remote' = NoObj
    /\ UNCHANGED <<static, pc, response, getOutcome, calls, result, pollvars>>

\* ------------------------------------------------------------------ AD service principal
NoSp == [ex |-> FALSE, app_role_assignment_required |-> "None"]
SpObjs == {NoSp} \cup [ex : {TRUE}, app_role_assignment_required : {"true", "false"}]

ADSP_to_dict(object) ==
    [ex |-> TRUE, app_role_assignment_required |-> object.app_role_assignment_required]

\* get_resource: an error payload gives None, an exception is logged and the
\* function falls off its end, which is None as well
ADSP_get_resource_value(o, rem) ==
    IF o = "ok" /\ rem.ex THEN ADSP_to_dict(rem) ELSE NoSp

ADSP_get_resource ==
    /\ module = "adsp" /\ pc = "fetch"
    /\ \E o \in GetOutcomes :
         /\ response' = ADSP_get_resource_value(o, remote)
         /\ getOutcome' = IF o # "ok" THEN "error"
                          ELSE IF remote.ex THEN "found" ELSE "notfound"
         /\ pc' = "act"
    /\ UNCHANGED <<static, remote, calls, result, pollvars>>

ADSP_check_update(p, resp) ==
    /\ p.app_role_assignment_required # "None"
    /\ p.app_role_assignment_required # resp.app_role_assignment_required

\* lines 120-126: self.body
ADSP_body(p) == [appRoleAssignmentRequired |-> p.app_role_assignment_required]

\* what the directory holds after it accepted the POST / the PATCH of self.body
ADSP_posted(p) ==
    [ex |-> TRUE,
     app_role_assignment_required |->
        IF p.app_role_assignment_required = "None" THEN "false"
        ELSE p.app_role_assignment_required]

ADSP_patched(p, rem) ==
    [rem EXCEPT !.app_role_assignment_required =
        IF p.app_role_assignment_required = "None" THEN @
        ELSE p.app_role_assignment_required]

\* create_resource and update_resource: the answer of the POST / PATCH is
\* never looked at; only an exception reaches self.fail
ADSP_write(kind, after) ==
    \E o \in {"ok", "errpayload", "raise"}, g \in GetOutcomes :
        /\ Send(kind, o = "ok", ADSP_body(params))
        /\ IF o = "raise"
           THEN /\ UNCHANGED remote
                /\ Fail
           ELSE /\ remote' = IF o = "ok" THEN after ELSE remote
                /\ Return(TRUE, ADSP_get_resource_value(g, remote'))

\* delete_resource
ADSP_delete_resource ==
    \E o \in {"ok", "errpayload", "raise"} :
        /\ Mutate("delete", o = "ok")
        /\ IF o = "raise"
           THEN /\ UNCHANGED remote
                /\ Fail
           ELSE /\ remote' = IF o = "ok" THEN NoSp ELSE remote
                /\ Return(TRUE, NoSp)

ADSP_exec_module ==
    /\ module = "adsp" /\ pc = "act"
    /\ IF response.ex
       THEN IF params.state = "present"
            THEN IF ADSP_check_update(params, response)
                 THEN ADSP_write("update", ADSP_patched(params, remote))
                 ELSE /\ \E g \in GetOutcomes :
                            Return(FALSE, ADSP_get_resource_value(g, remote))
                      /\ UNCHANGED <<remote, calls>>
            ELSE ADSP_delete_resource
       ELSE IF params.state = "present"
            THEN ADSP_write("create", ADSP_posted(params))
            ELSE /\ Return(FALSE, NoSp)
                 /\ UNCHANGED <<remote, calls>>
    /\ UNCHANGED <<static, response, getOutcome, pollvars>>

\* ------------------------------------------------------------------ AD user
NoUser == [ex |-> FALSE, id |-> 0, userPrincipalName |-> "None",
           displayName |-> "None", mail |-> "None", accountEnabled |-> "None"]

Users == [ex : {TRUE}, id : 1..NumUsers, userPrincipalName : {"u1", "u2"},
          displayName : {"d1", "d2"}, mail : {"None", "m1"},
          accountEnabled : {"true"}]

\* a directory: object id -> user; ids are filled from 1, principal names are unique
Directories ==
    {d \in [1..NumUsers -> Users \cup {NoUser}] :
        /\ \A i \in 1..NumUsers : d[i].ex => d[i].id = i
        /\ \A i \in 2..NumUsers : d[i].ex => d[i - 1].ex
        /\ \A i, j \in 1..NumUsers :
              (d[i].ex /\ d[j].ex /\ i # j) =>
                  d[i].userPrincipalName # d[j].userPrincipalName}

\* lines 263-287: self.body
ADU_body(p) ==
    [displayName |-> p.display_name, mail |-> p.mail,
     userPrincipalName |-> p.user_principal_name,
     accountEnabled |-> p.account_enabled]

\* the users the task's lookup selects among: by object id; else by display
\* name (first match of the listing); else by principal name (first match);
\* else by the filter; else by attribute (last match).  The order of a
\* listing is the directory's choice.
ADU_matches(p, dir) ==
    IF p.object_id # 0
    THEN {dir[i] : i \in {j \in 1..NumUsers : j = p.object_id /\ dir[j].ex}}
    ELSE IF p.display_name # "None"
    THEN {dir[i] : i \in {j \in 1..NumUsers :
                              dir[j].ex /\ dir[j].displayName = p.display_name}}
    ELSE IF p.user_principal_name # "None"
    THEN {dir[i] : i \in {j \in 1..NumUsers :
                              dir[j].ex /\ dir[j].userPrincipalName = p.user_principal_name}}
    ELSE IF p.odata_filter # "None"
    THEN {dir[i] : i \in {j \in 1..NumUsers : dir[j].ex /\ dir[j].mail = "m1"}}
    ELSE {dir[i] : i \in {j \in 1..NumUsers :
                              dir[j].ex /\ dir[j].mail = p.attribute_value}}

\* one lookup (get_exisiting_user, and again lines 293-329), o the GET's
\* outcome; failed stands for self.fail.  GET /users/<id> answers an error
\* payload for every HTTP error, which becomes None; the listings raise
\* KeyError on an error payload, which reaches self.fail.  With odata_filter
\* the answer is the collection object itself ({"@odata.context", "value"}):
\* response[0] (line 388) and response['id'] / response['displayName'] (lines
\* 333-354) are KeyErrors, so a GET that is answered never yields a user; an
\* error payload becomes None.
ADU_lookup(p, dir, o) ==
    LET found == {[failed |-> FALSE, user |-> u] : u \in ADU_matches(p, dir)}
        none == {[failed |-> FALSE, user |-> NoUser]}
        fails == {[failed |-> TRUE, user |-> NoUser]}
        by_filter == /\ p.display_name = "None" /\ p.user_principal_name = "None"
                     /\ p.odata_filter # "None"
    IN  IF o = "conn_error" THEN fails
        ELSE IF p.object_id # 0
        THEN IF o = "ok" /\ found # {} THEN found ELSE none
        ELSE IF by_filter
        THEN IF o = "ok" THEN fails ELSE none
        ELSE IF o = "http_error" THEN fails
        ELSE IF found # {} THEN found ELSE none

ADU_get_exisiting_user ==
    /\ module = "aduser" /\ pc = "fetch"
    /\ \E o1 \in GetOutcomes, o2 \in GetOutcomes :
         \E r1 \in ADU_lookup(params, remote, o1), r2 \in ADU_lookup(params, remote, o2) :
            IF r1.failed \/ r2.failed
            THEN /\ pc' = "failed"
                 /\ getOutcome' = "error"
                 /\ response' = NoUser
            ELSE /\ pc' = "act"
                 /\ response' = r2.user
                 /\ getOutcome' = IF o2 # "ok" THEN "error"
                                  ELSE IF r2.user.ex THEN "found" ELSE "notfound"
    /\ UNCHANGED <<static, remote, calls, result, pollvars>>

\* lines 333-337: the comparison
ADU_changed(body, resp) ==
    \/ body.displayName # "None" /\ resp.displayName # body.displayName
    \/ body.mail # "None" /\ resp.mail # body.mail
    \/ body.userPrincipalName # "None" /\ resp.userPrincipalName # body.userPrincipalName

\* user_to_dict: the projection the result carries; [] for no user
NoUserDict == [ex |-> FALSE, object_id |-> 0, user_principal_name |-> "None",
               display_name |-> "None", mail |-> "None", account_enabled |-> "None"]

user_to_dict(object) ==
    IF object.ex
    THEN [ex |-> TRUE, object_id |-> object.id,
          user_principal_name |-> object.userPrincipalName,
          display_name |-> object.displayName, mail |-> object.mail,
          account_enabled |-> object.accountEnabled]
    ELSE NoUserDict

\* the directory refuses a principal name another user holds
ADU_upn_free(dir, upn, self_id) ==
    \A i \in 1..NumUsers : (dir[i].ex /\ i # self_id) => dir[i].userPrincipalName # upn

ADU_patched(u, body) ==
    [u EXCEPT !.displayName = IF body.displayName = "None" THEN @ ELSE body.displayName,
              !.mail = IF body.mail = "None" THEN @ ELSE body.mail,
              !.userPrincipalName = IF body.userPrincipalName = "None" THEN @
                                    ELSE body.userPrincipalName,
              !.accountEnabled = body.accountEnabled]

\* update_resource: PATCH, then on 204 a GET of the user; any other status,
\* and any exception of the two calls, is self.fail
ADU_update_resource(obj_id, obj) ==
    \E o \in {"ok", "errpayload", "raise"}, g \in GetOutcomes :
        LET accepted == /\ o = "ok" /\ remote[obj_id].ex
                        /\ \/ obj.userPrincipalName = "None"
                           \/ ADU_upn_free(remote, obj.userPrincipalName, obj_id)
        IN  /\ Send("update", accepted, obj)
            /\ remote' = IF accepted
                         THEN [remote EXCEPT ![obj_id] = ADU_patched(@, obj)]
                         ELSE remote
            /\ IF accepted /\ g = "ok"
               THEN Return(TRUE, user_to_dict(remote'[obj_id]))
               ELSE Fail

\* create_resource: POST; an error payload and an exception are self.fail.
\* The directory takes a new user only with a principal name nobody holds,
\* and gives it an object id of its own choosing.
ADU_create_resource(obj) ==
    \E o \in {"ok", "errpayload", "raise"} :
      \E slot \in {i \in 1..NumUsers : ~remote[i].ex /\ i # params.object_id} \cup {0} :
        LET accepted == /\ o = "ok" /\ slot # 0
                        /\ obj.userPrincipalName # "None"
                        /\ ADU_upn_free(remote, obj.userPrincipalName, 0)
            user == [ex |-> TRUE, id |-> slot,
                     userPrincipalName |-> obj.userPrincipalName,
                     displayName |-> obj.displayName, mail |-> obj.mail,
                     accountEnabled |-> obj.accountEnabled]
        IN  /\ (slot = 0) = (\A i \in 1..NumUsers : remote[i].ex \/ i = params.object_id)
            /\ Send("create", accepted, obj)
            /\ IF accepted
               THEN /\ remote' = [remote EXCEPT ![slot] = user]
                    /\ Return(TRUE, user_to_dict(user))
               ELSE /\ UNCHANGED remote
                    /\ Fail

\* delete_resource: the answer of the DELETE is never looked at
ADU_delete_resource(obj) ==
    \E o \in {"ok", "errpayload", "raise"} :
        /\ Mutate("delete", o = "ok")
        /\ IF o = "raise"
           THEN /\ UNCHANGED remote
                /\ Fail
           ELSE /\ remote' = IF o = "ok" THEN [remote EXCEPT ![obj] = NoUser] ELSE remote
                /\ Return(TRUE, user_to_dict(NoUser))

ADU_exec_module ==
    /\ module = "aduser" /\ pc = "act"
    /\ IF response.ex
       THEN IF params.state = "present"
            THEN IF ADU_changed(ADU_body(params), response)
                 THEN ADU_update_resource(response.id, ADU_body(params))
                 ELSE /\ Return(FALSE, user_to_dict(response))
                      /\ UNCHANGED <<remote, calls>>
            ELSE ADU_delete_resource(response.id)
       ELSE IF params.state = "present"
            THEN ADU_create_resource(ADU_body(params))
            ELSE /\ Return(FALSE, user_to_dict(NoUser))
                 /\ UNCHANGED <<remote, calls>>
    /\ UNCHANGED <<static, response, getOutcome, pollvars>>

\* ------------------------------------------------------------------ the run
\* no second invocation, no info module invocation, no request body under study
NoPeer == [pc |-> "none"]
NoInfo == [pc |-> "none"]
NoOsb == [pc |-> "none"]

RemotesOf(m) ==
    CASE m = "aduser" -> Directories
      [] m = "adsp" -> SpObjs
      [] OTHER -> ArmObjs(m)

NoResponse(m) ==
    CASE m = "aduser" -> NoUser
      [] m = "adsp" -> NoSp
      [] OTHER -> NoObj

NoState(m) ==
    CASE m = "aduser" -> NoUserDict
      [] m = "adsp" -> NoSp
      [] OTHER -> NoObj

\* the resource the task names is not at the remote
Absent(m, p, rem) ==
    IF m = "aduser" THEN ADU_matches(p, rem) = {} ELSE ~rem.ex

Init ==
    /\ module \in Modules
    /\ params \in ParamsOf(module)
    /\ check_mode \in (IF module \in CheckModeModules THEN BOOLEAN ELSE {FALSE})
    /\ remote \in RemotesOf(module)
    /\ pc = "fetch"
    /\ response = NoResponse(module)
    /\ getOutcome = "none"
    /\ calls = NoCalls
    /\ result = [changed |-> FALSE, state |-> NoState(module)]
    /\ run = 1
    /\ first = [changed |-> FALSE, state |-> NoState(module)]
    /\ startAbsent = Absent(module, params, remote)
    /\ polls = 0
    /\ pollSaw = "none"
    /\ peer = NoPeer /\ current = 1 /\ serialized = TRUE
    /\ info = NoInfo /\ osb = NoOsb

\* the same task is run again after an invocation that returned a result
Again ==
    /\ pc = "done" /\ run < MaxRuns
    /\ run' = run + 1
    /\ first' = result
    /\ pc' = "fetch"
    /\ response' = NoResponse(module)
    /\ getOutcome' = "none"
    /\ calls' = NoCalls
    /\ result' = [changed |-> FALSE, state |-> NoState(module)]
    /\ polls' = 0
    /\ pollSaw' = "none"
    /\ UNCHANGED <<module, params, check_mode, remote, startAbsent, aux>>

\* the steps of an invocation
Step ==
    \/ DF_get_item \/ DF_exec_module
    \/ HC_get \/ HC_exec_module
    \/ DCE_get_by_name \/ DCE_exec_module
    \/ DCR_get_by_name \/ DCR_exec_module
    \/ OS_get_resource \/ OS_exec_module \/ OS_poll \/ OS_sleep
    \/ ADSP_get_resource \/ ADSP_exec_module
    \/ ADU_get_exisiting_user \/ ADU_exec_module

Next == Step \/ Again \/ RemoteCompletesDelete

Spec == Init /\ [][Next]_vars

\* an invocation that can take a step takes it: exec_module runs to its end
FairSpec == Spec /\ WF_vars(Step)

\* ------------------------------------------------------------------ two invocations
\* Two invocations of one task for the same identity (data factory or service
\* principal, state=present, no check mode).  pc, response, getOutcome, calls
\* and result are those of the invocation that is running; the other one's
\* are kept in peer.  The modules hold no lock: an invocation can be
\* suspended between any two of its remote calls, unless the caller
\* serializes the two.
Locals ==
    [pc |-> pc, response |-> response, getOutcome |-> getOutcome,
     calls |-> calls, result |-> result]

\* invocation i, running or suspended
Inv(i) == IF current = i THEN Locals ELSE peer

Switch ==
    /\ peer.pc \in {"fetch", "act"}
    /\ serialized => pc \in {"done", "failed"}
    /\ pc' = peer.pc /\ response' = peer.response /\ getOutcome' = peer.getOutcome
    /\ calls' = peer.calls /\ result' = peer.result
    /\ peer' = Locals
    /\ current' = 3 - current
    /\ UNCHANGED <<module, params, check_mode, remote, run, first, startAbsent,
                   pollvars, serialized, info, osb>>

ConcInit ==
    /\ module \in {"datafactory", "adsp"}
    /\ params \in {q \in ParamsOf(module) : q.state = "present"}
    /\ check_mode = FALSE
    /\ remote \in RemotesOf(module)
    /\ pc = "fetch"
    /\ response = NoResponse(module)
    /\ getOutcome = "none"
    /\ calls = NoCalls
    /\ result = [changed |-> FALSE, state |-> NoState(module)]
    /\ run = 1
    /\ first = [changed |-> FALSE, state |-> NoState(module)]
    /\ startAbsent = Absent(module, params, remote)
    /\ polls = 0
    /\ pollSaw = "none"
    /\ peer = [pc |-> "fetch", response |-> NoResponse(module), getOutcome |-> "none",
               calls |-> NoCalls,
               result |-> [changed |-> FALSE, state |-> NoState(module)]]
    /\ current = 1
    /\ serialized \in BOOLEAN
    /\ info = NoInfo /\ osb = NoOsb

ConcNext ==
    \/ DF_get_item \/ DF_exec_module
    \/ ADSP_get_resource \/ ADSP_exec_module
    \/ Switch

ConcSpec == ConcInit /\ [][ConcNext]_vars

\* ------------------------------------------------------------------ info modules
\* azure_rm_hybridcompute_info, azure_rm_monitordatacollectionendpoint_info
\* and azure_rm_monitordatacollectionrule_info.  info holds one invocation:
\*   mod        the module
\*   scope      name (name and resource_group given), resource_group, or all
\*   tags       the tags filter: entries 'key' (value 0) or 'key:value'
\*   resources  the tags of the resources the scope holds at the remote
\*   outcome    how the GET / the listing ended
\*   out        the returned list: null for None, else the entries, each a
\*              dict of the resource or None
InfoModules == {"hybridcompute_info", "dce_info", "dcr_info"}

TagFilters == {{}, {[key |-> "a", value |-> 0]}, {[key |-> "a", value |-> 1]}}

ResourceLists(scope) ==
    UNION {[1..n -> TagMap] : n \in 0..(IF scope = "name" THEN 1 ELSE MaxFetched)}

\* AzureRMModuleBase.has_tags: every entry of the filter is met by the tags
has_tags(obj_tags, tag_list) ==
    \A t \in tag_list :
        IF t.value # 0 THEN obj_tags[t.key] = t.value ELSE obj_tags[t.key] # 0

INFO_dict(tags) == [null |-> FALSE, tags |-> tags]
INFO_None == [null |-> TRUE, tags |-> EmptyTags]

\* hybrid compute: get_item gives a list ([] on ResourceNotFoundError), the
\* listings give the SDK's pager, which is truthy also when it yields nothing
HCI_fetch(scope, resources) ==
    [paged |-> scope # "name", items |-> resources]

\* format: None for a falsy raw, else the dicts of the items has_tags accepts
HCI_format(raw, tags) ==
    IF ~raw.paged /\ raw.items = <<>>
    THEN [null |-> TRUE, list |-> <<>>]
    ELSE LET Test(t) == has_tags(t, tags)
             kept == SelectSeq(raw.items, Test)
         IN  [null |-> FALSE, list |-> [i \in 1..Len(kept) |-> INFO_dict(kept[i])]]

\* exec_module: an error of the GET other than not-found leaves get_item; an
\* error of list_by_resourcegroup leaves `response` unbound; list_all fails
HCI_exec_module ==
    /\ info.pc = "start" /\ info.mod = "hybridcompute_info"
    /\ \E o \in {"ok", "error"} :
         info' = IF o = "ok"
                 THEN [info EXCEPT !.pc = "done", !.outcome = o,
                                   !.out = HCI_format(HCI_fetch(info.scope, info.resources),
                                                      info.tags)]
                 ELSE [info EXCEPT !.pc = "failed", !.outcome = o]
    /\ UNCHANGED <<core, peer, current, serialized, osb>>

\* data collection endpoint, to_dict: None for None and for a resource
\* has_tags rejects
DCEI_to_dict(body, tags) ==
    IF ~body.null /\ has_tags(body.tags, tags) THEN INFO_dict(body.tags) ELSE INFO_None

\* get_by_name: [response], with response None after any HttpResponseError
\* (a 404 included); the listings: the pager
DCEI_fetch(scope, resources) ==
    IF scope = "name" /\ resources = <<>>
    THEN <<INFO_None>>
    ELSE [i \in 1..Len(resources) |-> INFO_dict(resources[i])]

\* exec_module: [self.to_dict(item) for item in response if response is not
\* None]; a failed listing leaves response None, and iterating it raises
DCEI_exec_module ==
    /\ info.pc = "start" /\ info.mod = "dce_info"
    /\ \E o \in {"ok", "error"} :
         LET fetched == IF o = "ok" THEN DCEI_fetch(info.scope, info.resources)
                         ELSE <<INFO_None>>
         IN  info' = IF o = "error" /\ info.scope # "name"
                     THEN [info EXCEPT !.pc = "failed", !.outcome = o]
                     ELSE [info EXCEPT !.pc = "done", !.outcome = o,
                                       !.out = [null |-> FALSE,
                                                list |-> [i \in 1..Len(fetched) |->
                                                    DCEI_to_dict(fetched[i], info.tags)]]]
    /\ UNCHANGED <<core, peer, current, serialized, osb>>

\* data collection rule: the same code
DCRI_to_dict(body, tags) ==
    IF ~body.null /\ has_tags(body.tags, tags) THEN INFO_dict(body.tags) ELSE INFO_None

DCRI_fetch(scope, resources) ==
    IF scope = "name" /\ resources = <<>>
    THEN <<INFO_None>>
    ELSE [i \in 1..Len(resources) |-> INFO_dict(resources[i])]

DCRI_exec_module ==
    /\ info.pc = "start" /\ info.mod = "dcr_info"
    /\ \E o \in {"ok", "error"} :
         LET fetched == IF o = "ok" THEN DCRI_fetch(info.scope, info.resources)
                         ELSE <<INFO_None>>
         IN  info' = IF o = "error" /\ info.scope # "name"
                     THEN [info EXCEPT !.pc = "failed", !.outcome = o]
                     ELSE [info EXCEPT !.pc = "done", !.outcome = o,
                                       !.out = [null |-> FALSE,
                                                list |-> [i \in 1..Len(fetched) |->
                                                    DCRI_to_dict(fetched[i], info.tags)]]]
    /\ UNCHANGED <<core, peer, current, serialized, osb>>

\* no resource module invocation is under way
IdleCore ==
    /\ module = "hybridcompute"
    /\ params = [state |-> "absent", tags |-> [set |-> FALSE, map |-> EmptyTags]]
    /\ check_mode = TRUE
    /\ remote = NoObj
    /\ pc = "done"
    /\ response = NoObj
    /\ getOutcome = "none"
    /\ calls = NoCalls
    /\ result = NoResult
    /\ run = 1
    /\ first = NoResult
    /\ startAbsent = TRUE
    /\ polls = 0
    /\ pollSaw = "none"
    /\ peer = NoPeer /\ current = 1 /\ serialized = TRUE

InfoInit ==
    /\ IdleCore
    /\ osb = NoOsb
    /\ \E m \in InfoModules, sc \in {"name", "resource_group", "all"}, f \in TagFilters :
         \E rs \in ResourceLists(sc) :
            info = [pc |-> "start", mod |-> m, scope |-> sc, tags |-> f,
                    resources |-> rs, outcome |-> "none",
                    out |-> [null |-> TRUE, list |-> <<>>]]

InfoNext == HCI_exec_module \/ DCEI_exec_module \/ DCRI_exec_module

InfoSpec == InfoInit /\ [][InfoNext]_vars

\* ------------------------------------------------------------------ OpenShift request body
\* What exec_module puts into self.body['properties'] and what set_default
\* adds before the create PUT.  osb holds one invocation that creates:
\*   kwargs  the parameters, after the argument spec filled its defaults
\*           ("None" is None)
\*   body    self.body['properties'] ("Absent" is a key the dict lacks)
\*   pc      start, built (exec_module's loop is through), sent (the PUT is
\*           issued with body), failed
OSB_Worker ==
    [name : {"worker"},
     vm_size : {"None", "Standard_D4s_v3", "Standard_D8s_v3"},
     disk_size : {"None", "256"}]

OSB_WorkerLists == UNION {[1..n -> OSB_Worker] : n \in 0..MaxWorkers}

OSB_MasterUnset ==
    [set |-> FALSE, vm_size |-> "None", encryption_at_host |-> "None",
     disk_encryption_set_id |-> "None"]

\* module_arg_spec: encryption_at_host defaults to Disabled, the ingress name
\* to default, cluster_profile to dict()
OSB_Inputs ==
    [worker_profiles :
        {[set |-> FALSE, list |-> <<>>]}
        \cup {[set |-> TRUE, list |-> l] : l \in OSB_WorkerLists},
     master_profile :
        {OSB_MasterUnset}
        \cup [set : {TRUE},
              vm_size : {"None", "Standard_D8s_v3", "Standard_D16s_v3"},
              encryption_at_host : {"Disabled", "Enabled"},
              disk_encryption_set_id : {"None", "des1"}],
     cluster_profile :
        [domain : {"None", "", "dom1"},
         pull_secret : {"None", "secret1"},
         cluster_resource_group_id : {"None", "rg1"}],
     service_principal_profile : BOOLEAN,
     api_server_profile : {"None", "Public", "Private"},
     ingress_profiles :
        {[set |-> FALSE, list |-> <<>>], [set |-> TRUE, list |-> <<>>],
         [set |-> TRUE, list |-> <<"default">>]}]

OSB_NoMaster ==
    [present |-> FALSE, vmSize |-> "Absent", encryptionAtHost |-> "Absent",
     diskEncryptionSetId |-> "Absent"]

OSB_EmptyBody ==
    [workerProfiles |-> [present |-> FALSE, list |-> <<>>],
     masterProfile |-> OSB_NoMaster,
     clusterProfile |-> [domain |-> "Absent", pullSecret |-> "Absent",
                         resourceGroupId |-> "Absent"],
     servicePrincipalProfile |-> FALSE,
     apiserverProfile |-> "Absent",
     ingressProfiles |-> [present |-> FALSE, list |-> <<>>]]

\* Python truth of a string or None
OSB_truthy(v) == v \notin {"None", "", "Absent"}

\* lines 758-766: the keys of master_profile are all there after the argument
\* spec, so encryptionAtHost is written twice, first with the disk encryption
\* set id, then with encryption_at_host; vmSize is always written
OSB_masterProfile(mp) ==
    LET m0 == [OSB_NoMaster EXCEPT !.present = TRUE]
        m1 == [m0 EXCEPT !.encryptionAtHost = mp.disk_encryption_set_id]
        m2 == [m1 EXCEPT !.encryptionAtHost = mp.encryption_at_host]
    IN  [m2 EXCEPT !.vmSize = mp.vm_size]

\* lines 767-781: name only when not None; vmSize and diskSizeGB always
OSB_workerProfile(item) ==
    [name |-> IF item.name # "None" THEN item.name ELSE "Absent",
     vmSize |-> item.vm_size,
     diskSizeGB |-> item.disk_size]

\* lines 729-742: an item of cluster_profile is copied only when truthy
OSB_clusterProfile(cp) ==
    [domain |-> IF OSB_truthy(cp.domain) THEN cp.domain ELSE "Absent",
     pullSecret |-> IF OSB_truthy(cp.pull_secret) THEN cp.pull_secret ELSE "Absent",
     resourceGroupId |-> IF OSB_truthy(cp.cluster_resource_group_id)
                         THEN cp.cluster_resource_group_id ELSE "Absent"]

\* lines 724-789: a parameter that is None leaves no key
OSB_body(k) ==
    [workerProfiles |->
        [present |-> k.worker_profiles.set,
         list |-> [i \in 1..Len(k.worker_profiles.list) |->
                      OSB_workerProfile(k.worker_profiles.list[i])]],
     masterProfile |->
        IF k.master_profile.set THEN OSB_masterProfile(k.master_profile)
        ELSE OSB_NoMaster,
     clusterProfile |-> OSB_clusterProfile(k.cluster_profile),
     servicePrincipalProfile |-> k.service_principal_profile,
     apiserverProfile |->
        IF k.api_server_profile # "None" THEN k.api_server_profile ELSE "Absent",
     ingressProfiles |->
        [present |-> k.ingress_profiles.set, list |-> k.ingress_profiles.list]]

\* random_id: eight characters, the first a letter
RandomIds == {"rnd1", "rnd2"}

\* set_default, called with a non-empty workerProfiles; rid is what random_id
\* returns when it is called
set_default(b, rid) ==
    LET w == b.workerProfiles.list[1]
        w1 == [w EXCEPT !.name = IF @ = "Absent" THEN "worker" ELSE @,
                        !.vmSize = IF @ = "Absent" THEN "Standard_D4s_v3" ELSE @,
                        !.diskSizeGB = IF @ = "Absent" THEN "128" ELSE @]
    IN  [b EXCEPT
            !.apiserverProfile = IF @ = "Absent" THEN "Public" ELSE @,
            !.ingressProfiles =
                IF ~@.present THEN [present |-> TRUE, list |-> <<"default">>]
                ELSE [present |-> TRUE, list |-> [i \in 1..Len(@.list) |-> "default"]],
            !.workerProfiles.list[1] = w1,
            !.masterProfile.vmSize = IF @ = "Absent" THEN "Standard_D8s_v3" ELSE @,
            !.clusterProfile.pullSecret = IF @ = "Absent" THEN "" ELSE @,
            !.clusterProfile.resourceGroupId = IF @ = "Absent" THEN "generated" ELSE @,
            !.clusterProfile.domain = IF ~OSB_truthy(@) THEN rid ELSE @]

\* the profiles self.body['properties'] holds
OSB_profiles(b) ==
    {"clusterProfile"}
    \cup (IF b.workerProfiles.present THEN {"workerProfiles"} ELSE {})
    \cup (IF b.masterProfile.present THEN {"masterProfile"} ELSE {})
    \cup (IF b.servicePrincipalProfile THEN {"servicePrincipalProfile"} ELSE {})

OSB_exec_module ==
    /\ osb.pc = "start"
    /\ osb' = [osb EXCEPT !.pc = "built", !.body = OSB_body(osb.kwargs)]
    /\ UNCHANGED <<core, peer, current, serialized, info>>

\* create_update_resource with to_do = Create, up to the PUT: the required
\* profiles, then set_default (an IndexError on an empty worker list)
OSB_create_update_resource ==
    /\ osb.pc = "built"
    /\ IF ~(RequiredProfiles \subseteq OSB_profiles(osb.body))
          \/ osb.body.workerProfiles.list = <<>>
       THEN osb' = [osb EXCEPT !.pc = "failed"]
       ELSE \E rid \in RandomIds :
               osb' = [osb EXCEPT !.pc = "sent", !.body = set_default(osb.body, rid)]
    /\ UNCHANGED <<core, peer, current, serialized, info>>

BodyInit ==
    /\ IdleCore
    /\ info = NoInfo
    /\ \E k \in OSB_Inputs :
         osb = [pc |-> "start", kwargs |-> k, body |-> OSB_EmptyBody]

BodyNext == OSB_exec_module \/ OSB_create_update_resource

BodySpec == BodyInit /\ [][BodyNext]_vars

\* ------------------------------------------------------------------ decisions
\* the comparison of desired against fetched attributes, per module
Differs(m, p, resp) ==
    CASE m = "datafactory" -> DF_changed(p, resp)
      [] m = "dce" -> DCE_changed(p, resp)
      [] m = "dcr" -> DCR_changed(p, resp)
      [] m = "aduser" -> ADU_changed(ADU_body(p), resp)
      [] m = "adsp" -> ADSP_check_update(p, resp)
      [] OTHER -> FALSE

\* what exec_module of module m does without check mode, given what its fetch
\* returned: the call it goes on to issue, None, or Refuse (self.fail before
\* any call)
Decided(m, p, resp) ==
    CASE m = "hybridcompute" ->
           IF p.state = "absent" /\ resp.ex THEN "Delete" ELSE "None"
      [] m = "openshift" ->
           CASE OS_to_do(p, resp) = "Create" -> "Create"
             [] OS_to_do(p, resp) = "Delete" -> "Delete"
             [] OS_to_do(p, resp) = "NoAction" -> "None"
             [] OTHER -> "Refuse"
      [] OTHER ->
           IF p.state = "present"
           THEN IF ~resp.ex THEN "Create"
                ELSE IF Differs(m, p, resp) THEN "Update" ELSE "None"
           ELSE IF resp.ex THEN "Delete" ELSE "None"

\* ------------------------------------------------------------------ claims
\* C1: idempotence of state=present.  For the data factory, data collection
\* endpoint, data collection rule, AD user and AD service principal modules:
\* when the resource did not exist at first and the same task is run twice
\* without check mode, the first run reports changed=true, the second reports
\* changed=false and issues no create, update or delete call.
C1_Idempotent ==
    (/\ module \in {"datafactory", "dce", "dcr", "aduser", "adsp"}
     /\ startAbsent /\ params.state = "present" /\ ~check_mode
     /\ run = 2 /\ pc = "done")
    => (first.changed /\ ~result.changed /\ Mutations(calls) = 0)

\* C2: decision table.  Without check mode a create call is issued only if
\* the fetch returned not-found and state=present, a delete call only if the
\* fetch returned a resource and state=absent, an update call only if the
\* fetch returned a resource, state=present and the comparison found a
\* difference.
C2_DecisionTable ==
    ~check_mode =>
        /\ calls.create > 0 => (~response.ex /\ params.state = "present")
        /\ calls.delete > 0 => (response.ex /\ params.state = "absent")
        /\ calls.update > 0 => (/\ response.ex /\ params.state = "present"
                                /\ Differs(module, params, response))

C2_Witness ==
    /\ ~check_mode /\ pc = "done"
    /\ calls.update = 1 /\ Differs(module, params, response)
    /\ module = "datafactory"

\* C3: with state=absent, when the fetch reports that the resource does not
\* exist, no create, update or delete call is issued and the result has
\* changed=false.
C3_AbsentNotFound ==
    (params.state = "absent" /\ getOutcome = "notfound")
    => (/\ Mutations(calls) = 0
        /\ pc # "failed"
        /\ pc = "done" => ~result.changed)

C3_Witness ==
    /\ params.state = "absent" /\ getOutcome = "notfound" /\ pc = "done"
    /\ module = "openshift" /\ ~check_mode

\* C4: check mode never mutates.  In the modules that support check mode an
\* invocation in check mode issues no create, update or delete call and the
\* remote stays as it was, whatever the remote state, the requested state and
\* the computed action are.
C4_CheckModeNeverMutates ==
    [][check_mode => (Mutations(calls') = 0 /\ remote' = remote)]_vars

C4_Witness ==
    /\ check_mode /\ pc = "done" /\ result.changed
    /\ response.ex /\ params.state = "absent"

\* C5: in check mode changed tells whether an action was decided: a
\* check-mode invocation reports changed=true exactly when the same task
\* without check mode, on the same fetched state, decides Create, Update or
\* Delete.
C5_CheckModeChanged ==
    (check_mode /\ pc = "done")
    => (result.changed <=> Decided(module, params, response) \in {"Create", "Update", "Delete"})

\* C6: in check mode the result's state is the fetched state, unchanged: when
\* the resource exists and check mode predicts an Update or a Delete, the
\* state of the result equals what the fetch returned.
C6_CheckModeState ==
    (/\ check_mode /\ pc = "done" /\ response.ex
     /\ Decided(module, params, response) \in {"Update", "Delete"})
    => result.state = response

\* C7: without check mode, a returned result has changed=true if and only if
\* exactly one create, update or delete call was issued and the remote
\* accepted it.
C7_ChangedIffMutated ==
    (~check_mode /\ pc = "done")
    => (result.changed <=> (Mutations(calls) = 1 /\ calls.accepted = 1))

\* C8: a fetch that fails with an error other than not-found makes the
\* invocation fail; it is not taken for "the resource does not exist", and no
\* create, update or delete call follows it.
C8_FetchErrorFails ==
    (getOutcome = "error" /\ pc # "act") => (pc = "failed" /\ Mutations(calls) = 0)

\* C9: the delete-confirmation poll of the OpenShift module is bounded: once
\* the poll has begun the invocation ends, also when every GET keeps
\* reporting the cluster.
C9_PollEnds == (pc \in {"poll", "sleep"}) ~> (pc \in {"done", "failed"})

\* C10: delete ordering in the OpenShift module.  Without check mode, with
\* state=absent on a cluster the fetch found: exactly one DELETE is issued,
\* the poll's GETs come after it, and the changed=true result is returned
\* only after a GET of the poll reported the cluster as not found.
C10_DeleteOrdering ==
    (module = "openshift" /\ ~check_mode /\ params.state = "absent"
        /\ getOutcome = "found")
    => (/\ polls > 0 => calls.delete = 1
        /\ pc = "done" => (/\ calls.delete = 1 /\ result.changed
                           /\ pollSaw = "notfound"))

\* C11: create scenario.  For the data factory, data collection endpoint,
\* data collection rule, AD user and AD service principal modules: without
\* check mode and with state=present, when the fetch reports not-found the
\* invocation issues exactly one create call and no update or delete call,
\* and when the remote accepts that call it returns changed=true.
C11_CreateScenario ==
    (/\ module \in {"datafactory", "dce", "dcr", "aduser", "adsp"}
     /\ ~check_mode /\ params.state = "present"
     /\ getOutcome = "notfound" /\ pc \in {"done", "failed"})
    => (/\ calls.create = 1 /\ calls.update = 0 /\ calls.delete = 0
        /\ calls.accepted = 1 => (pc = "done" /\ result.changed))

C11_Witness ==
    /\ module = "aduser" /\ ~check_mode /\ params.state = "present"
    /\ getOutcome = "notfound" /\ pc = "done"
    /\ calls.create = 1 /\ calls.accepted = 1 /\ result.changed

\* C12: the hybrid compute module creates with state=present.  Without check
\* mode, state=present for a machine the fetch reports as not found issues a
\* create call and reports changed=true, and the machine then exists.
C12_HybridCreates ==
    (/\ module = "hybridcompute" /\ ~check_mode /\ params.state = "present"
     /\ getOutcome = "notfound" /\ pc = "done")
    => (calls.create = 1 /\ result.changed /\ remote.ex)

\* C13: no-op scenario of the OpenShift module.  state=present on a cluster
\* the fetch found ends successfully with changed=false, with no create,
\* update or delete call, and returns the existing cluster.
C13_OpenShiftNoOp ==
    (/\ module = "openshift" /\ params.state = "present"
     /\ getOutcome = "found" /\ pc \notin {"fetch", "act"})
    => (/\ pc = "done" /\ ~result.changed /\ Mutations(calls) = 0
        /\ result.state = response)

\* a compared attribute the task supplies has a value other than the fetched one
C14_SuppliedDiffers(m, p, resp) ==
    CASE m = "datafactory" ->
           \/ p.tags.set /\ \E k \in TagKeys :
                                p.tags.map[k] # 0 /\ p.tags.map[k] # resp.tags[k]
           \/ p.public_network_access # "None" /\ p.public_network_access # resp.pna
      [] m = "aduser" ->
           \/ p.display_name # "None" /\ p.display_name # resp.displayName
           \/ p.mail # "None" /\ p.mail # resp.mail
           \/ p.user_principal_name # "None"
                 /\ p.user_principal_name # resp.userPrincipalName
      [] m = "adsp" ->
           /\ p.app_role_assignment_required # "None"
           /\ p.app_role_assignment_required # resp.app_role_assignment_required
      [] OTHER -> FALSE

\* C14: the comparison never reports a difference for an attribute the task
\* did not supply.  In the data factory, AD user and service principal
\* modules, with state=present on an existing resource, an update call or a
\* changed=true result occurs only if some supplied attribute differs from
\* the fetched one: an unset parameter alone never causes it, whatever the
\* remote value is.
C14_UnsetNeverDiffers ==
    (/\ module \in {"datafactory", "aduser", "adsp"}
     /\ params.state = "present" /\ response.ex
     /\ calls.update > 0 \/ (pc = "done" /\ result.changed))
    => C14_SuppliedDiffers(module, params, response)

C14_Witness ==
    /\ module = "datafactory" /\ params.state = "present" /\ ~check_mode
    /\ ~params.tags.set /\ params.public_network_access = "None"
    /\ response.ex /\ response.tags # EmptyTags /\ response.pna = "Disabled"
    /\ pc = "done" /\ ~result.changed /\ Mutations(calls) = 0

\* some attribute the task supplies, compared by the module or not, has a
\* value other than the remote's (rem the ARM resource, resp the fetched user
\* or service principal)
C15_SuppliedDiffers(m, p, rem, resp) ==
    CASE m = "datafactory" ->
           \/ C14_SuppliedDiffers(m, p, rem)
           \/ p.global_parameters # "None" /\ p.global_parameters # rem.extra
      [] m \in {"dce", "dcr"} ->
           \/ p.tags.set /\ \E k \in TagKeys :
                                p.tags.map[k] # 0 /\ p.tags.map[k] # rem.tags[k]
           \/ p.description # "None" /\ p.description # rem.extra
      [] m \in {"aduser", "adsp"} -> C14_SuppliedDiffers(m, p, resp)
      [] OTHER -> FALSE

\* C15: every supplied attribute takes part in the comparison.  With
\* state=present on an existing resource, when a supplied attribute differs
\* from the remote one the module decides Update: the result has
\* changed=true and, without check mode, an update call was issued.
C15_SuppliedCompared ==
    (/\ module \in {"datafactory", "dce", "dcr", "aduser", "adsp"}
     /\ params.state = "present" /\ getOutcome = "found" /\ pc = "done"
     /\ C15_SuppliedDiffers(module, params, remote, response))
    => (result.changed /\ (~check_mode => calls.update = 1))

\* C16: the AD user module updates account_enabled.  With state=present on
\* an existing user whose accountEnabled differs from the supplied
\* account_enabled, the module issues an update (PATCH) and reports
\* changed=true.
C16_AccountEnabledUpdated ==
    (/\ module = "aduser" /\ params.state = "present"
     /\ getOutcome = "found" /\ pc = "done"
     /\ params.account_enabled # response.accountEnabled)
    => (calls.update = 1 /\ result.changed)

\* the body of an update keeps what the task left unset: such an attribute
\* has the remote's current value in the body (None only where the remote
\* has None)
C17_BodyKeeps(m, p, rem, body) ==
    /\ ~p.tags.set => body.tags = rem.tags
    /\ (m = "datafactory" /\ p.global_parameters = "None") => body.extra = rem.extra
    /\ (m = "datafactory" /\ p.public_network_access = "None") => body.pna = rem.pna
    /\ (m \in {"dce", "dcr"} /\ p.description = "None") => body.extra = rem.extra
    /\ (m = "dce" /\ p.identity = "Unset") => body.identity = rem.identity

\* C17: an update never alters an attribute the task left unset.  Whenever
\* the data factory or data collection endpoint/rule module issues an update,
\* every attribute whose parameter was not supplied is carried in the body
\* with the remote's current value, never as None in its place.
C17_UnsetKept ==
    [][(module \in {"datafactory", "dce", "dcr"} /\ calls'.update > calls.update)
       => C17_BodyKeeps(module, params, remote, calls'.body)]_vars

\* C18: tags are merged on update.  Whenever the data factory or data
\* collection endpoint/rule module issues an update, the body's tags are the
\* desired tags together with every existing tag the desired ones do not
\* mention, whichever attribute caused the update; and merging desired tags
\* the existing tags already contain reports no tag change.
C18_TagsMerged ==
    [][/\ (module \in {"datafactory", "dce", "dcr"} /\ calls'.update > calls.update)
          => \A k \in TagKeys :
                calls'.body.tags[k] =
                    IF params.tags.set /\ params.tags.map[k] # 0
                    THEN params.tags.map[k] ELSE remote.tags[k]
       /\ (/\ module \in {"datafactory", "dce", "dcr"} /\ remote.ex
           /\ \A k \in TagKeys :
                 params.tags.map[k] # 0 => params.tags.map[k] = remote.tags[k])
          => ~update_tags(remote.tags, params.tags.map)[1]]_vars

\* the users the attribute_name/attribute_value pair or the odata_filter names
C19_Named(p, dir) ==
    {i \in 1..NumUsers : dir[i].ex /\ dir[i].mail = "m1"}

\* C19: ambiguous lookups are errors.  In the AD user module, when the
\* identity is given by odata_filter or by attribute_name/attribute_value and
\* more than one user matches, the invocation fails: it returns no result and
\* neither updates nor deletes a user.
C19_AmbiguousFails ==
    [][(/\ module = "aduser"
        /\ params.attribute_value # "None" \/ params.odata_filter # "None"
        /\ Cardinality(C19_Named(params, remote)) > 1)
       => (/\ calls'.update = calls.update /\ calls'.delete = calls.delete
           /\ pc' # "done")]_vars

\* C20: the AD user module acts on the user the selector names.  The user an
\* update or delete call is issued for has the supplied user_principal_name,
\* whatever else is supplied (display_name included), or the supplied
\* object_id.
C20_ActsOnNamedUser ==
    [][(/\ module = "aduser"
        /\ calls'.update > calls.update \/ calls'.delete > calls.delete)
       => (/\ params.user_principal_name # "None"
              => response.userPrincipalName = params.user_principal_name
           /\ params.object_id # 0 => response.id = params.object_id)]_vars

\* C21: no retry.  An invocation issues at most one create, update or delete
\* call in total, and when the remote does not accept that call the
\* invocation ends in failure.
C21_NoRetry ==
    /\ Mutations(calls) <= 1
    /\ (Mutations(calls) = 1 /\ calls.accepted = 0 /\ pc # "act") => pc = "failed"

\* C22: a returned result carries no resource state only when a delete call
\* was issued and accepted, or when state=absent was requested and the fetch
\* reported not-found; every other returned result carries the resource's
\* state.
C22_StateCarried ==
    (pc = "done" /\ result.state = NoState(module))
    => (\/ calls.delete = 1 /\ calls.accepted = 1
        \/ params.state = "absent" /\ getOutcome = "notfound")

C26_ValidatedBeforePut ==
    module = "openshift" =>
        /\ (/\ ~check_mode /\ pc \in {"done", "failed"}
            /\ OS_to_do(params, response) = "Create"
            /\ ~(RequiredProfiles \subseteq OS_body_profiles(params)))
              => (pc = "failed" /\ Mutations(calls) = 0)
        /\ calls.create > 0 => RequiredProfiles \subseteq calls.body

C26_Witness ==
    /\ module = "openshift" /\ ~check_mode /\ pc = "failed"
    /\ OS_to_do(params, response) = "Create" /\ getOutcome = "notfound"
    /\ "masterProfile" \notin OS_body_profiles(params)
    /\ Mutations(calls) = 0

\* C29: check mode predicts the real run in the OpenShift module.  For
\* parameters and a fetched state for which a check-mode invocation returns
\* changed=true, the invocation without check mode issues the PUT or DELETE,
\* and returns changed=true when it returns; it does not fail before the call.
C29_CheckModePredicts ==
    (/\ module = "openshift" /\ ~check_mode /\ getOutcome \in {"found", "notfound"}
     /\ OS_check_mode_changed(params, response) /\ pc \in {"done", "failed"})
    => (Mutations(calls) = 1 /\ (pc = "done" => result.changed))

\* C30: the delete-confirmation poll ends only on real absence.  While the
\* cluster still exists, a GET of the poll that fails does not end the poll
\* with a result: the poll goes on or the invocation fails.
C30_PollEndsOnAbsence ==
    [][(module = "openshift" /\ pc = "poll" /\ remote'.ex /\ pollSaw' = "error")
       => pc' # "done"]_vars

\* both invocations have issued a create call
C24_BothCreate ==
    Inv(1).calls.create = 1 /\ Inv(2).calls.create = 1

C25_Expected(resources, tags) ==
    LET Test(t) == has_tags(t, tags)
        kept == SelectSeq(resources, Test)
    IN  [i \in 1..Len(kept) |-> INFO_dict(kept[i])]

\* C25: tag filtering in the info modules.  When the remote answers, the
\* returned list holds exactly one entry for each fetched resource whose tags
\* match the filter and nothing else; it is the empty list when the named
\* resource does not exist and when no resource matches.
C25_TagFilterExact ==
    (info.pc = "done" /\ info.outcome = "ok")
    => (~info.out.null /\ info.out.list = C25_Expected(info.resources, info.tags))

\* C27: defaults on OpenShift cluster creation.  In the body the create PUT
\* sends, the first worker profile has non-null name, vmSize and diskSizeGB
\* ('worker', 'Standard_D4s_v3', 128 when the caller omitted them),
\* masterProfile.vmSize is non-null ('Standard_D8s_v3' when omitted), every
\* ingress profile is named 'default', apiserverProfile is there, and
\* clusterProfile has a non-empty domain, a pullSecret and a resourceGroupId.
C27_DefaultsApplied ==
    osb.pc = "sent" =>
        LET b  == osb.body
            w  == b.workerProfiles.list[1]
            kw == osb.kwargs.worker_profiles.list[1]
            Null == {"None", "Absent"}
        IN  /\ w.name \notin Null
            /\ w.vmSize \notin Null
            /\ w.diskSizeGB \notin Null
            /\ kw.vm_size = "None" => w.vmSize = "Standard_D4s_v3"
            /\ kw.disk_size = "None" => w.diskSizeGB = "128"
            /\ b.masterProfile.vmSize \notin Null
            /\ osb.kwargs.master_profile.vm_size = "None"
                  => b.masterProfile.vmSize = "Standard_D8s_v3"
            /\ \A i \in 1..Len(b.ingressProfiles.list) :
                  b.ingressProfiles.list[i] = "default"
            /\ b.ingressProfiles.present
            /\ b.apiserverProfile # "Absent"
            /\ OSB_truthy(b.clusterProfile.domain)
            /\ b.clusterProfile.pullSecret # "Absent"
            /\ b.clusterProfile.resourceGroupId # "Absent"

\* C28: the master profile is carried faithfully.  When master_profile
\* supplies disk_encryption_set_id and encryption_at_host, the body's
\* masterProfile holds the disk encryption set id under its own key, and
\* encryptionAtHost is the supplied encryption_at_host, never the disk
\* encryption set id.
C28_MasterFaithful ==
    (/\ osb.pc \in {"built", "sent"}
     /\ osb.kwargs.master_profile.set
     /\ osb.kwargs.master_profile.disk_encryption_set_id # "None")
    => (/\ osb.body.masterProfile.diskEncryptionSetId
              = osb.kwargs.master_profile.disk_encryption_set_id
        /\ osb.body.masterProfile.encryptionAtHost
              = osb.kwargs.master_profile.encryption_at_host)

====
